---------------------------- MODULE Spec2Model ----------------------------
(***************************************************************************)
(* Model of the xv6 mmap region tracker (mmap / munmap / free_mmap_ll)     *)
(* and of the kernel block allocator it rests on (kmalloc / kmfree /       *)
(* morecore).                                                              *)
(*                                                                         *)
(* Four specifications share the variables:                                *)
(*   Spec      - one process issuing mmap, munmap and free_mmap_ll; the    *)
(*               descriptor nodes come from kmalloc and go back to kmfree. *)
(*   SpecAlloc - a kernel client calling kmalloc and kmfree directly,      *)
(*               with requests of several sizes.                           *)
(*   SpecAllocPages - the same client with page-sized requests only, run   *)
(*               long enough for the allocator to take a second page.      *)
(*   SpecAllocMixed - the same client with requests of 512 and 513 units,  *)
(*               kmalloc and kmfree calls counted together.                *)
(*                                                                         *)
(* Allocator memory is addressed in Header units (8 bytes).  A descriptor  *)
(* node is identified by the payload pointer kmalloc returned for it; its  *)
(* fields are kept in the function `regions`.                              *)
(***************************************************************************)
EXTENDS Integers, Naturals, Sequences, FiniteSets, TLC

VARIABLES
  sz,           \* p->sz, the recorded address-space size of the process
  pgsz,         \* the size the page table of the process really covers
  nregions,     \* p->nregions
  region_head,  \* p->region_head (a node pointer or NULL)
  regions,      \* node pointer -> [start_addr, length, next]
  freep,        \* kmalloc.c: static Header *freep
  mem,          \* header address -> [ptr, size]; holds `base` and every header written
  kpages,       \* pages kalloc() has handed to morecore
  live,         \* payload pointers returned by kmalloc and not yet passed to kmfree
  phase,        \* "run"; "exited" once free_mmap_ll has torn the regions down;
                \* "halted" once the kernel has stopped (panic, trap, endless loop)
  last,         \* record of the last call: arguments, result and the state before it
  calls,        \* how many calls have been made so far (Spec: mmap and munmap;
                \* SpecAlloc: kmalloc; SpecAllocMixed: kmalloc and kmfree)
  run           \* the current run of calls. Spec: the addresses returned by consecutive
                \* successful same-length mmap calls. SpecAlloc: the current sequence
                \* of kmalloc(n); kmfree(same pointer) round trips.

vars == <<sz, pgsz, nregions, region_head, regions, freep, mem, kpages, live, phase, last,
          calls, run>>

-----------------------------------------------------------------------------
(* Program constants *)

NULL == 0
PGSIZE == 4096
HeaderSize == 8
KmallocCap == 4096
MorecoreUnits == 4096
PtrSize == 4

(* Bounds of the model *)

\* The kernel/user boundary. The program's value is 2^31, which TLC's
\* integers cannot hold; the model keeps its role, a page-aligned address
\* above every user address, with a smaller value of KernPages pages.
KernPages == 8
KERNBASE == KernPages * PGSIZE
MaxLive == 3
NKPages == 2
MaxTrips == 2
MaxCalls == 5
MaxOps == 5
MaxLivePages == 9
MaxCallsPages == 10
MaxCallsMixed == 10

\* unsigned arithmetic is modulo twice the kernel boundary (2^32 for 2^31)
UintMod == 2 * KERNBASE

-----------------------------------------------------------------------------
(* Block allocator: kmalloc.c *)

\* &base: the static list anchor, below every page kalloc returns
BaseAddr == 1

\* unit addresses of the pages kalloc can return (a page holds 512 units)
PageUnits == KmallocCap \div HeaderSize
KPool == { PageUnits * k : k \in 1..NKPages }

Put(m, a, v) == [x \in (DOMAIN m) \cup {a} |-> IF x = a THEN v ELSE m[x]]

\* a store to the size field alone: hp->s.size = n. The ptr field keeps what
\* the memory holds; where no header was written before, nothing reads it
\* until kmfree has set it.
PutSize(m, a, n) == Put(m, a, [ptr |-> IF a \in DOMAIN m THEN m[a].ptr ELSE NULL, size |-> n])

\* kmfree, the for loop: the free block after which bp is inserted.
\* fuel bounds the walk; -1 stands for a walk that never ends.
RECURSIVE KmfreeScan(_, _, _, _)
KmfreeScan(m, p, bp, fuel) ==
  IF fuel = 0 \/ p \notin DOMAIN m THEN -1
  ELSE IF bp > p /\ bp < m[p].ptr THEN p
  ELSE IF p >= m[p].ptr /\ (bp > p \/ bp < m[p].ptr) THEN p
  ELSE KmfreeScan(m, m[p].ptr, bp, fuel - 1)

\* kmfree, lines 36-40: join bp to the block after p when they touch
JoinUpper(m, p, bp) ==
  IF bp + m[bp].size = m[p].ptr
  THEN Put(m, bp, [ptr |-> m[m[p].ptr].ptr, size |-> m[bp].size + m[m[p].ptr].size])
  ELSE Put(m, bp, [ptr |-> m[p].ptr, size |-> m[bp].size])

\* kmfree, lines 41-45: join p to bp when they touch
JoinLower(m, p, bp) ==
  IF p + m[p].size = bp
  THEN Put(m, p, [ptr |-> m[bp].ptr, size |-> m[p].size + m[bp].size])
  ELSE Put(m, p, [ptr |-> bp, size |-> m[p].size])

\* kmfree once the scan has stopped at p
KmfreeAt(h, bp, p) ==
  IF p = -1 THEN [freep |-> h.freep, mem |-> h.mem, hang |-> TRUE]
  ELSE [freep |-> p, mem |-> JoinLower(JoinUpper(h.mem, p, bp), p, bp), hang |-> FALSE]

\* kmfree(ap) on the allocator state h = [freep, mem]
Kmfree(h, ap) ==
  KmfreeAt(h, ap - 1, KmfreeScan(h.mem, h.freep, ap - 1, Cardinality(DOMAIN h.mem) + 1))

\* morecore, lines 63-66: the page becomes a free block and joins the list
MorecoreDone(f) == [freep |-> f.freep, mem |-> f.mem, ret |-> f.freep, hang |-> f.hang]

\* morecore(nu) given kalloc's answer pg (NULL when kalloc fails)
Morecore(h, pg) ==
  IF pg = NULL THEN [freep |-> h.freep, mem |-> h.mem, ret |-> NULL, hang |-> FALSE]
  ELSE MorecoreDone(Kmfree([freep |-> h.freep, mem |-> PutSize(h.mem, pg, MorecoreUnits)],
                           pg + 1))

Nunits(nbytes) == (nbytes + HeaderSize - 1) \div HeaderSize + 1

\* what kmalloc returns: [freep, mem, ret, used, starved, hang, panic]
\*   used: how many answers of kalloc the call consumed
\*   starved: the call asked kalloc for more answers than it was given
\*   hang: a list walk that never ends; panic: the kernel panicked
KmallocResult(f, m, ret, used, flag) ==
  [freep |-> f, mem |-> m, ret |-> ret, used |-> used,
   starved |-> flag = "starved", hang |-> flag = "hang", panic |-> flag = "panic"]

\* kmalloc, lines 86-98: the block p fits
KmallocTake(h, prevp, p, nunits, used) ==
  IF h.mem[p].size = nunits
  THEN KmallocResult(prevp,
                     Put(h.mem, prevp, [ptr |-> h.mem[p].ptr, size |-> h.mem[prevp].size]),
                     p + 1, used, "ok")
  ELSE KmallocResult(prevp,
                     PutSize(PutSize(h.mem, p, h.mem[p].size - nunits),
                             p + h.mem[p].size - nunits, nunits),
                     p + h.mem[p].size - nunits + 1, used, "ok")

\* kmalloc, the for loop (lines 85-103). ks: kalloc's answers still to be
\* used. fuel bounds the walk.
RECURSIVE KmallocLoop(_, _, _, _, _, _, _)
RECURSIVE KmallocGrown(_, _, _, _, _)
KmallocLoop(h, prevp, p, nunits, ks, used, fuel) ==
  IF fuel = 0 \/ p \notin DOMAIN h.mem
  THEN KmallocResult(h.freep, h.mem, NULL, used, "hang")
  ELSE IF h.mem[p].size >= nunits
  THEN KmallocTake(h, prevp, p, nunits, used)
  ELSE IF p = h.freep
  THEN IF ks = << >>
       THEN KmallocResult(h.freep, h.mem, NULL, used, "starved")
       ELSE KmallocGrown(Morecore(h, Head(ks)), nunits, Tail(ks), used + 1, fuel - 1)
  ELSE KmallocLoop(h, p, h.mem[p].ptr, nunits, ks, used, fuel - 1)

\* kmalloc, lines 100-102 and the loop's step: p = morecore(nunits)
KmallocGrown(mc, nunits, ks, used, fuel) ==
  IF mc.hang THEN KmallocResult(mc.freep, mc.mem, NULL, used, "hang")
  ELSE IF mc.ret = NULL THEN KmallocResult(mc.freep, mc.mem, NULL, used, "ok")
  ELSE KmallocLoop([freep |-> mc.freep, mem |-> mc.mem], mc.ret, mc.mem[mc.ret].ptr,
                   nunits, ks, used, fuel)

\* kmalloc, lines 81-84: the first call sets the list up
KmallocInit(h) ==
  IF h.freep = NULL
  THEN [freep |-> BaseAddr, mem |-> Put(h.mem, BaseAddr, [ptr |-> BaseAddr, size |-> 0])]
  ELSE [freep |-> h.freep, mem |-> h.mem]

KmallocFrom(h, nunits, ks) ==
  KmallocLoop(h, h.freep, h.mem[h.freep].ptr, nunits, ks, 0,
              2 * (Cardinality(DOMAIN h.mem) + 2))

\* kmalloc(nbytes) on h = [freep, mem]; nbytes > 4096 panics
Kmalloc(h, nbytes, ks) ==
  IF nbytes > KmallocCap
  THEN KmallocResult(h.freep, h.mem, NULL, 0, "panic")
  ELSE KmallocFrom(KmallocInit(h), Nunits(nbytes), ks)

\* the free list as the loop of kmalloc sees it: the headers reached from freep
RECURSIVE FreeWalk(_, _, _, _)
FreeWalk(m, p, seen, fuel) ==
  IF fuel = 0 \/ p \notin DOMAIN m \/ p \in seen THEN seen
  ELSE FreeWalk(m, m[p].ptr, seen \cup {p}, fuel - 1)

FreeNodes(f, m) == IF f = NULL THEN {} ELSE FreeWalk(m, f, {}, Cardinality(DOMAIN m) + 1)

\* the shape of the free list: its blocks as <<address, size>>, base left out
FreeBlocks(f, m) == { <<a, m[a].size>> : a \in FreeNodes(f, m) \ {BaseAddr} }

RECURSIVE SumSizes(_)
SumSizes(S) == IF S = {} THEN 0
               ELSE LET b == CHOOSE x \in S : TRUE IN b[2] + SumSizes(S \ {b})

FreeUnits(f, m) == SumSizes(FreeBlocks(f, m))

\* The headers the allocator can still read: those on the free list and those
\* of the blocks its clients hold. Every other header ever written is dead
\* memory (no code path reads it before writing it), and so is the ptr field of
\* a held block; the state keeps neither.
Reachable(f, m, held) ==
  LET keep == (FreeNodes(f, m) \cup { ap - 1 : ap \in held }) \cap DOMAIN m
  IN [a \in keep |-> IF a \in FreeNodes(f, m) THEN m[a]
                     ELSE [ptr |-> NULL, size |-> m[a].size]]


-----------------------------------------------------------------------------
(* The page-frame allocator, an external collaborator: kalloc() returns a    *)
(* page it has not handed out yet, or NULL.                                  *)

KallocAnswers == (KPool \ kpages) \cup {NULL}

-----------------------------------------------------------------------------
(* SpecAlloc: a kernel client of kmalloc / kmfree *)

\* request sizes in bytes: a descriptor pointer, a small record, a whole page,
\* and one over the cap
AllocSizes == {PtrSize, 5 * PtrSize, KmallocCap, KmallocCap + 1}

NoCall == [op |-> "none"]

NoTrip == [n |-> 0, k |-> 0, ptr |-> NULL, shape0 |-> {}, shape1 |-> {}, grew |-> FALSE]

Min(a, b) == IF a < b THEN a ELSE b

\* header and extent of the block behind a payload pointer
HdrOf(ap) == ap - 1
SizeOf(m, ap) == m[ap - 1].size

\* the pages a kmalloc call took from kalloc: the answers it used, NULL left out
PagesUsed(ks, r) == { ks[i] : i \in 1..r.used } \ {NULL}

\* the round-trip tracker after kmalloc(nbytes) returned r.ret: the call either
\* continues the current sequence of kmalloc(n); kmfree(same pointer) pairs or
\* starts a new one
TripAfterKmalloc(nbytes, r) ==
  IF r.ret = NULL THEN NoTrip
  ELSE IF run.k > 0 /\ run.ptr = NULL /\ run.n = nbytes
  THEN [run EXCEPT !.ptr = r.ret, !.grew = run.grew \/ r.used > 0]
  ELSE [n |-> nbytes, k |-> 0, ptr |-> r.ret, shape0 |-> FreeBlocks(freep, mem),
        shape1 |-> {}, grew |-> r.used > 0]

TripAfterKmfree(ap, f) ==
  IF run.ptr = ap /\ ap # NULL
  THEN [run EXCEPT !.ptr = NULL, !.k = Min(run.k + 1, MaxTrips),
                   !.shape1 = IF run.k = 0 THEN FreeBlocks(f.freep, f.mem) ELSE run.shape1]
  ELSE NoTrip

\* kmalloc(nbytes) called by a kernel client
AllocKmallocWith(nbytes, ks) ==
  LET r == Kmalloc([freep |-> freep, mem |-> mem], nbytes, ks)
  IN /\ ~r.starved
     /\ freep' = r.freep
     /\ live' = IF r.ret = NULL THEN live ELSE live \cup {r.ret}
     /\ mem' = Reachable(r.freep, r.mem, live')
     /\ kpages' = kpages \cup PagesUsed(ks, r)
     /\ phase' = IF r.panic \/ r.hang THEN "halted" ELSE "run"
     /\ last' = [op |-> "kmalloc", nbytes |-> nbytes, ret |-> r.ret, used |-> r.used,
                 panic |-> r.panic, hang |-> r.hang, pages |-> PagesUsed(ks, r),
                 pre |-> FreeBlocks(freep, mem), preLive |-> live]
     /\ run' = TripAfterKmalloc(nbytes, r)
     /\ calls' = calls + 1
     /\ UNCHANGED <<sz, pgsz, nregions, region_head, regions>>

\* a kmalloc call of one of the given sizes; kalloc is asked only when the
\* call reaches morecore, and each time it answers with a fresh page or NULL
KmallocOf(sizes) ==
  \E nbytes \in sizes :
     \/ AllocKmallocWith(nbytes, << >>)
     \/ /\ Kmalloc([freep |-> freep, mem |-> mem], nbytes, << >>).starved
        /\ \E k1 \in KallocAnswers :
             \/ AllocKmallocWith(nbytes, <<k1>>)
             \/ /\ Kmalloc([freep |-> freep, mem |-> mem], nbytes, <<k1>>).starved
                /\ \E k2 \in KallocAnswers \ ({k1} \ {NULL}) :
                     AllocKmallocWith(nbytes, <<k1, k2>>)

AllocKmalloc ==
  /\ phase = "run"
  /\ Cardinality(live) < MaxLive
  /\ calls < MaxCalls
  /\ KmallocOf(AllocSizes)

\* SpecAllocPages: the same client asking only for the largest block kmalloc
\* serves, often enough for morecore to be called a second time
PagesKmalloc ==
  /\ phase = "run"
  /\ Cardinality(live) < MaxLivePages
  /\ calls < MaxCallsPages
  /\ KmallocOf({KmallocCap})

\* kmfree(ap) called by a kernel client, on a pointer it holds; counted says
\* by how much the call advances the call counter
KmfreeCall(counted) ==
  /\ phase = "run"
  /\ \E ap \in live :
       LET f == Kmfree([freep |-> freep, mem |-> mem], ap)
       IN /\ freep' = f.freep
          /\ live' = live \ {ap}
          /\ mem' = Reachable(f.freep, f.mem, live')
          /\ phase' = IF f.hang THEN "halted" ELSE "run"
          /\ last' = [op |-> "kmfree", ap |-> ap, size |-> SizeOf(mem, ap), hang |-> f.hang,
                      pairWith |-> IF last.op = "kmfree"
                                      /\ ( HdrOf(last.ap) + last.size = HdrOf(ap)
                                           \/ HdrOf(ap) + SizeOf(mem, ap) = HdrOf(last.ap) )
                                   THEN last.ap ELSE NULL,
                      pairSize |-> IF last.op = "kmfree" THEN last.size ELSE 0,
                      pre |-> FreeBlocks(freep, mem), preLive |-> live]
          /\ run' = TripAfterKmfree(ap, f)
          /\ calls' = calls + counted
          /\ UNCHANGED <<sz, pgsz, nregions, region_head, regions, kpages>>

AllocKmfree == KmfreeCall(0)

\* SpecAllocMixed: a client asking for blocks of 512 and of 513 units (the
\* largest two sizes kmalloc serves), with kmalloc and kmfree calls counted
\* together
MixedSizes == {KmallocCap - HeaderSize, KmallocCap}

MixedKmalloc ==
  /\ phase = "run"
  /\ calls < MaxCallsMixed
  /\ KmallocOf(MixedSizes)

MixedKmfree ==
  /\ calls < MaxCallsMixed
  /\ KmfreeCall(1)

InitAlloc ==
  /\ sz = 0
  /\ pgsz = 0
  /\ nregions = 0
  /\ region_head = NULL
  /\ regions = << >>
  /\ freep = NULL
  /\ mem = << >>
  /\ kpages = {}
  /\ live = {}
  /\ phase = "run"
  /\ last = NoCall
  /\ calls = 0
  /\ run = NoTrip

NextAlloc == AllocKmalloc \/ AllocKmfree

SpecAlloc == InitAlloc /\ [][NextAlloc]_vars

NextAllocPages == PagesKmalloc \/ AllocKmfree

SpecAllocPages == InitAlloc /\ [][NextAllocPages]_vars

NextAllocMixed == MixedKmalloc \/ MixedKmfree

SpecAllocMixed == InitAlloc /\ [][NextAllocMixed]_vars

-----------------------------------------------------------------------------
(* Region tracker: mmap / munmap / ll_delete / free_mmap_ll                  *)
(*                                                                           *)
(* The operators work on a record st of the process and allocator state:     *)
(*   [sz, pgsz, nregions, head, regs, freep, mem, live]                      *)

PGROUNDDOWN(a) == a - (a % PGSIZE)

\* (void*)-1, the failure marker of mmap; munmap returns -1
MapFailed == UintMod - 1

\* the address-space resizer, an external collaborator:
\* allocuvm(pgdir, oldsz, newsz) returns newsz, or 0 when it cannot grow
Allocuvm(oldsz, newsz, ok) ==
  IF ok /\ newsz < KERNBASE /\ newsz >= oldsz THEN newsz ELSE 0

\* deallocuvm(pgdir, oldsz, newsz) returns newsz
Deallocuvm(oldsz, newsz) == newsz

\* the nodes of the list in list order, from node n on
RECURSIVE ListFrom(_, _, _)
ListFrom(regs, n, fuel) ==
  IF n = NULL \/ fuel = 0 \/ n \notin DOMAIN regs THEN << >>
  ELSE <<n>> \o ListFrom(regs, regs[n].next, fuel - 1)

ListNodes(head, regs) == ListFrom(regs, head, Cardinality(DOMAIN regs) + 1)

\* the live regions in list order, each as <<start_addr, length>>
RegionSeq(nodes, regs) == [i \in 1..Len(nodes) |-> <<regs[nodes[i]].start_addr, regs[nodes[i]].length>>]

RegionList(head, regs) == RegionSeq(ListNodes(head, regs), regs)

MapResult(st, ret, path, ext, used) ==
  [st |-> st, ret |-> ret, path |-> path, ext |-> ext, used |-> used, fault |-> FALSE,
   starved |-> path = "starved"]

\* the advance without the rounding down to a page
BumpUnrounded(addr, length) == (addr + PGSIZE + length) % UintMod

\* mmap, lines 93, 101, 115: addr += PGROUNDDOWN(PGSIZE+length)
Bump(addr, length) == (addr + PGROUNDDOWN((PGSIZE + length) % UintMod)) % UintMod

\* mmap, lines 96-111: the while loop from cursor on. Result: how the loop
\* ended ("tail": cursor is the last node; "abort": the kernel-boundary
\* branch; "hang": it never ends), the candidate address and the cursor.
RECURSIVE MmapWalk(_, _, _, _, _, _)
MmapWalk(regs, head, cursor, addr, length, fuel) ==
  IF fuel = 0 THEN [out |-> "hang", addr |-> addr, cursor |-> cursor]
  ELSE IF regs[cursor].next = NULL THEN [out |-> "tail", addr |-> addr, cursor |-> cursor]
  ELSE IF addr = regs[cursor].start_addr
  THEN MmapWalk(regs, head, regs[head].next, Bump(addr, length), length, fuel - 1)
  ELSE IF addr >= KERNBASE THEN [out |-> "abort", addr |-> addr, cursor |-> cursor]
  ELSE MmapWalk(regs, head, regs[cursor].next, addr, length, fuel - 1)

WalkFuel == (UintMod \div PGSIZE + 2) * (MaxOps + 2)

\* mmap, lines 113-116: the last node is checked after the loop
TailBump(regs, cursor, addr, length) ==
  IF addr = regs[cursor].start_addr THEN Bump(addr, length) ELSE addr

\* mmap, lines 91-94: the head is checked before the loop
HeadBump(regs, head, addr, length) ==
  IF addr = regs[head].start_addr THEN Bump(addr, length) ELSE addr

\* mmap, lines 75-79: the fields written into a new descriptor (start_addr,
\* length, region_type, offset, next), each one 32-bit word
DescriptorFields == 5
DescriptorSize == DescriptorFields * PtrSize

\* the bytes the fields of the descriptor at r take: [r, DescriptorEnd(r)) in
\* byte addresses, r being a payload pointer in Header units
DescriptorEnd(r) == r * HeaderSize + DescriptorSize

\* kmalloc, lines 93-98: the first byte after the block whose payload is at r
BlockEnd(m, r) == (HdrOf(r) + SizeOf(m, r)) * HeaderSize

NewNode(addr, length) == [start_addr |-> addr, length |-> length, next |-> NULL]

\* mmap, lines 124-131: link r after the tail, count it, set its address
MmapAppend(st, r, length, cursor, addr) ==
  [st EXCEPT !.regs = Put([st.regs EXCEPT ![cursor].next = r], r, NewNode(addr, length)),
             !.nregions = st.nregions + 1]

\* mmap, lines 106-108: give the node back and shrink the page table again;
\* the value deallocuvm returns is dropped, p->sz stays as it is
MmapAbort(st, r, oldsz, f) ==
  [st EXCEPT !.freep = f.freep, !.mem = f.mem, !.live = st.live \ {r},
             !.pgsz = Deallocuvm(st.pgsz, oldsz)]

MmapAfterWalk(st, r, oldsz, length, w, used) ==
  IF w.out = "hang"
  THEN MapResult(st, MapFailed, "hang", <<"allocuvm", "switchuvm", "kmalloc">>, used)
  ELSE IF w.out = "abort"
  THEN MapResult(MmapAbort(st, r, oldsz, Kmfree([freep |-> st.freep, mem |-> st.mem], r)),
                 MapFailed, "kernbase",
                 <<"allocuvm", "switchuvm", "kmalloc", "kmfree", "deallocuvm">>, used)
  ELSE MapResult(MmapAppend(st, r, length, w.cursor,
                            TailBump(st.regs, w.cursor, w.addr, length)),
                 TailBump(st.regs, w.cursor, w.addr, length), "append",
                 <<"allocuvm", "switchuvm", "kmalloc">>, used)

\* mmap, lines 75-131, with the node r in hand
MmapInsert(st, r, oldsz, length, used) ==
  IF st.nregions = 0
  THEN MapResult([st EXCEPT !.head = r, !.nregions = 1,
                            !.regs = Put(st.regs, r, NewNode(PGROUNDDOWN(oldsz), length))],
                 PGROUNDDOWN(oldsz), "first", <<"allocuvm", "switchuvm", "kmalloc">>, used)
  ELSE MmapAfterWalk(st, r, oldsz, length,
                     MmapWalk(st.regs, st.head, st.head,
                              HeadBump(st.regs, st.head, PGROUNDDOWN(oldsz), length),
                              length, WalkFuel),
                     used)

\* mmap, lines 66-72: k is what kmalloc(sizeof(mmapped_region*)) returned
MmapNode(st, oldsz, length, k) ==
  IF k.starved THEN MapResult(st, MapFailed, "starved", << >>, k.used)
  ELSE IF k.ret = NULL
  THEN MapResult([st EXCEPT !.freep = k.freep, !.mem = k.mem,
                            !.pgsz = Deallocuvm(st.pgsz, oldsz)],
                 MapFailed, "kmalloc_fail",
                 <<"allocuvm", "switchuvm", "kmalloc", "deallocuvm">>, k.used)
  ELSE MmapInsert([st EXCEPT !.freep = k.freep, !.mem = k.mem, !.live = st.live \cup {k.ret}],
                  k.ret, oldsz, length, k.used)

\* mmap, lines 57-64: got is what allocuvm returned, stored in p->sz at once
MmapGrown(st, oldsz, got, length, ks) ==
  IF got = 0
  THEN MapResult([st EXCEPT !.sz = 0], MapFailed, "grow_fail", <<"allocuvm">>, 0)
  ELSE MmapNode([st EXCEPT !.sz = got, !.pgsz = got], oldsz, length,
                Kmalloc([freep |-> st.freep, mem |-> st.mem], PtrSize, ks))

\* mmap(addr, length, ...): grow is whether the resizer can grow, ks are
\* kalloc's answers should kmalloc reach morecore
Mmap(st, addr, length, grow, ks) ==
  IF addr >= KERNBASE \/ length < 1
  THEN MapResult(st, MapFailed, "einval", << >>, 0)
  ELSE MmapGrown(st, st.sz, Allocuvm(st.sz, (st.sz + length) % UintMod, grow), length, ks)

\* drop a node's fields once its block has gone back to the allocator
Without(regs, node) == [n \in (DOMAIN regs) \ {node} |-> regs[n]]

\* ll_delete, lines 222-236: unlink node (prev is used only when node is not the head)
LlUnlink(st, node, prev) ==
  IF node = st.head
  THEN [st EXCEPT !.head = IF st.regs[st.head].next # NULL THEN st.regs[st.head].next ELSE NULL]
  ELSE [st EXCEPT !.regs = [st.regs EXCEPT ![prev].next = st.regs[node].next]]

\* ll_delete, line 237: kmfree(node)
LlFree(st, node, f) ==
  [st EXCEPT !.freep = f.freep, !.mem = f.mem, !.live = st.live \ {node},
             !.regs = Without(st.regs, node)]

\* ll_delete(node, prev)
LlDelete(st, node, prev) ==
  LlFree(LlUnlink(st, node, prev), node, Kmfree([freep |-> st.freep, mem |-> st.mem], node))

\* the value recorded for a call that never returns
NoReturn == 0 - 2

UnmapResult(st, ret, path, ext, fault) ==
  [st |-> st, ret |-> ret, path |-> path, ext |-> ext, used |-> 0, fault |-> fault]

\* munmap, lines 168-170 and 194-196: shrink by length, count one region less
MunmapShrink(st, length) ==
  [st EXCEPT !.sz = Deallocuvm(st.sz, (st.sz - length) % UintMod),
             !.pgsz = Deallocuvm(st.sz, (st.sz - length) % UintMod),
             !.nregions = st.nregions - 1]

\* munmap, line 178 and line 201: node->length = size
SetLength(st, node, size) == [st EXCEPT !.regs = [st.regs EXCEPT ![node].length = size]]

\* munmap, lines 172-183: the head goes; when it has a successor, that node's
\* length is read before the unlink and written into the new head after it
MunmapHead(st, length) ==
  IF st.regs[st.head].next # NULL
  THEN UnmapResult(SetLength(LlDelete(MunmapShrink(st, length), st.head, NULL),
                             st.regs[st.head].next,
                             st.regs[st.regs[st.head].next].length),
                   0, "head", <<"deallocuvm", "switchuvm", "kmfree">>, FALSE)
  ELSE UnmapResult(LlDelete(MunmapShrink(st, length), st.head, NULL),
                   0, "head", <<"deallocuvm", "switchuvm", "kmfree">>, FALSE)

\* munmap, lines 193-204: the node next (after prev) goes. When next is the
\* last node, line 199 reads next->next->length and line 201 writes
\* prev->next->length through a null pointer: the kernel either traps there
\* (before the unlink) or carries on, the write landing outside the list.
MunmapInner(st, prev, next, length, trap) ==
  IF st.regs[next].next = NULL
  THEN IF trap
       THEN UnmapResult(MunmapShrink(st, length), NoReturn, "trap",
                        <<"deallocuvm", "switchuvm">>, TRUE)
       ELSE UnmapResult(LlDelete(MunmapShrink(st, length), next, prev),
                        0, "tail", <<"deallocuvm", "switchuvm", "kmfree">>, TRUE)
  ELSE UnmapResult(SetLength(LlDelete(MunmapShrink(st, length), next, prev),
                             st.regs[next].next,
                             st.regs[st.regs[next].next].length),
                   0, "inner", <<"deallocuvm", "switchuvm", "kmfree">>, FALSE)

\* munmap, lines 189-211: the while loop
RECURSIVE MunmapScan(_, _, _, _, _, _, _)
MunmapScan(st, prev, next, addr, length, trap, fuel) ==
  IF next = NULL \/ fuel = 0 THEN UnmapResult(st, -1, "notfound", << >>, FALSE)
  ELSE IF st.regs[next].start_addr = addr /\ st.regs[next].length = length
  THEN MunmapInner(st, prev, next, length, trap)
  ELSE MunmapScan(st, next, st.regs[next].next, addr, length, trap, fuel - 1)

\* munmap(addr, length); trap: whether a null-pointer access traps
Munmap(st, addr, length, trap) ==
  IF addr >= KERNBASE \/ length < 1 THEN UnmapResult(st, -1, "einval", << >>, FALSE)
  ELSE IF st.nregions = 0 THEN UnmapResult(st, -1, "empty", << >>, FALSE)
  ELSE IF st.regs[st.head].start_addr = addr /\ st.regs[st.head].length # 0
  THEN MunmapHead(st, length)
  ELSE MunmapScan(st, st.head, st.regs[st.head].next, addr, length, trap,
                  Cardinality(DOMAIN st.regs) + 1)

\* the loop of free_mmap_ll left after its first round
FreeAllHeadOnly(st, r, fuel) ==
  IF r = NULL \/ fuel = 0 THEN st ELSE LlDelete(st, r, NULL)

\* free_mmap_ll, lines 249-254: r is read from temp->next after ll_delete has
\* freed temp; kmfree leaves the payload of a freed block alone, so the read
\* gives the node's old successor
RECURSIVE FreeAll(_, _, _)
FreeAll(st, r, fuel) ==
  IF r = NULL \/ fuel = 0 THEN st
  ELSE FreeAll(LlDelete(st, r, NULL), st.regs[r].next, fuel - 1)

FreeMmapLl(st) == FreeAll(st, st.head, Cardinality(DOMAIN st.regs) + 1)

\* free_mmap_ll: the nodes it hands to ll_delete, and so to kmfree, in call order
RECURSIVE FreeOrder(_, _, _)
FreeOrder(st, r, fuel) ==
  IF r = NULL \/ fuel = 0 THEN << >>
  ELSE <<r>> \o FreeOrder(LlDelete(st, r, NULL), st.regs[r].next, fuel - 1)

\* free_mmap_ll: whether the loop, and every kmfree in it, comes to an end
RECURSIVE FreeEnds(_, _, _)
FreeEnds(st, r, fuel) ==
  IF r = NULL THEN TRUE
  ELSE IF fuel = 0 \/ Kmfree([freep |-> st.freep, mem |-> st.mem], r).hang THEN FALSE
  ELSE FreeEnds(LlDelete(st, r, NULL), st.regs[r].next, fuel - 1)

-----------------------------------------------------------------------------
(* Spec: one process calling mmap, munmap and, at its end, free_mmap_ll *)

\* the process starts with one page of address space
InitSz == PGSIZE

\* a length for which one advance of the candidate address crosses the boundary
BigLen == KERNBASE - 2 * PGSIZE

\* lengths below a page, of one page, above a page and not a multiple of it
Lengths == {100, PGSIZE, PGSIZE + 904, BigLen}

\* the <<addr, length>> pairs mmap is called with: every length with no address
\* suggested, and the two kinds of invalid argument
MmapArgs == { <<NULL, l>> : l \in Lengths } \cup { <<KERNBASE, 100>>, <<NULL, 0>> }

State == [sz |-> sz, pgsz |-> pgsz, nregions |-> nregions, head |-> region_head,
          regs |-> regions, freep |-> freep, mem |-> mem, live |-> live]

\* what a call leaves behind for the claims: the state before it
Before == [sz |-> sz, nregions |-> nregions, list |-> RegionList(region_head, regions),
           live |-> live, free |-> FreeBlocks(freep, mem)]

NoRun == [len |-> 0, addrs |-> << >>]

\* the <<addr, length>> pairs munmap is called with: the start address of each
\* live region or an address no region starts at (the last page below the
\* boundary), with every length, and the two kinds of invalid argument
UnmapArgs ==
  ( ({ regions[n].start_addr : n \in DOMAIN regions } \cup {KERNBASE - PGSIZE}) \X Lengths )
  \cup { <<KERNBASE, 100>>, <<PGSIZE, 0>> }

Install(res) ==
  /\ sz' = res.st.sz
  /\ pgsz' = res.st.pgsz
  /\ nregions' = res.st.nregions
  /\ region_head' = res.st.head
  /\ regions' = res.st.regs
  /\ freep' = res.st.freep
  /\ live' = res.st.live
  /\ mem' = Reachable(res.st.freep, res.st.mem, res.st.live)
  /\ phase' = IF res.path \in {"hang", "trap"} THEN "halted" ELSE "run"

RunAfterMmap(length, res) ==
  IF res.path \notin {"first", "append"} THEN NoRun
  ELSE IF run.len = length THEN [run EXCEPT !.addrs = Append(run.addrs, res.ret)]
  ELSE [len |-> length, addrs |-> <<res.ret>>]

MmapWith(addr, length, grow, ks) ==
  /\ ~Mmap(State, addr, length, grow, ks).starved
  /\ Install(Mmap(State, addr, length, grow, ks))
  /\ kpages' = kpages \cup PagesUsed(ks, Mmap(State, addr, length, grow, ks))
  /\ last' = [op |-> "mmap", addr |-> addr, length |-> length,
              ret |-> Mmap(State, addr, length, grow, ks).ret,
              path |-> Mmap(State, addr, length, grow, ks).path,
              ext |-> Mmap(State, addr, length, grow, ks).ext,
              fault |-> FALSE, pre |-> Before]
  /\ run' = RunAfterMmap(length, Mmap(State, addr, length, grow, ks))
  /\ calls' = calls + 1

MmapCall ==
  /\ phase = "run"
  /\ calls < MaxOps
  /\ \E a \in MmapArgs : \E grow \in BOOLEAN :
       /\ ~grow => Mmap(State, a[1], a[2], grow, << >>).path = "grow_fail"
       /\ \/ MmapWith(a[1], a[2], grow, << >>)
          \/ /\ Mmap(State, a[1], a[2], grow, << >>).starved
             /\ \E k1 \in KallocAnswers : MmapWith(a[1], a[2], grow, <<k1>>)

\* the call undoes the mmap made just before it: same address, same length
UndoesLast(addr, length) ==
  /\ last.op = "mmap" /\ last.path \in {"first", "append"}
  /\ addr = last.ret /\ length = last.length

MunmapCall ==
  /\ phase = "run"
  /\ calls < MaxOps
  /\ \E a \in UnmapArgs : \E trap \in BOOLEAN :
       /\ trap => Munmap(State, a[1], a[2], trap).path = "trap"
       /\ Install(Munmap(State, a[1], a[2], trap))
       /\ last' = [op |-> "munmap", addr |-> a[1], length |-> a[2],
                   ret |-> Munmap(State, a[1], a[2], trap).ret,
                   path |-> Munmap(State, a[1], a[2], trap).path,
                   ext |-> Munmap(State, a[1], a[2], trap).ext,
                   fault |-> Munmap(State, a[1], a[2], trap).fault,
                   pre |-> Before,
                   mapped |-> IF UndoesLast(a[1], a[2]) THEN last.pre ELSE NoCall]
       /\ run' = NoRun
       /\ calls' = calls + 1
       /\ UNCHANGED kpages

FreeMmapLlCall ==
  /\ phase = "run"
  /\ sz' = FreeMmapLl(State).sz
  /\ pgsz' = FreeMmapLl(State).pgsz
  /\ nregions' = FreeMmapLl(State).nregions
  /\ region_head' = FreeMmapLl(State).head
  /\ regions' = FreeMmapLl(State).regs
  /\ freep' = FreeMmapLl(State).freep
  /\ live' = FreeMmapLl(State).live
  /\ mem' = Reachable(FreeMmapLl(State).freep, FreeMmapLl(State).mem, FreeMmapLl(State).live)
  /\ phase' = IF FreeEnds(State, region_head, Cardinality(DOMAIN regions) + 1)
              THEN "exited" ELSE "halted"
  /\ last' = [op |-> "free_mmap_ll", pre |-> Before,
              nodes |-> ListNodes(region_head, regions),
              freed |-> FreeOrder(State, region_head, Cardinality(DOMAIN regions) + 1),
              ext |-> [i \in 1..Len(FreeOrder(State, region_head, Cardinality(DOMAIN regions) + 1))
                         |-> "kmfree"],
              ends |-> FreeEnds(State, region_head, Cardinality(DOMAIN regions) + 1)]
  /\ run' = NoRun
  /\ UNCHANGED <<kpages, calls>>

Init ==
  /\ sz = InitSz
  /\ pgsz = InitSz
  /\ nregions = 0
  /\ region_head = NULL
  /\ regions = << >>
  /\ freep = NULL
  /\ mem = << >>
  /\ kpages = {}
  /\ live = {}
  /\ phase = "run"
  /\ last = NoCall
  /\ calls = 0
  /\ run = NoRun

Next == MmapCall \/ MunmapCall \/ FreeMmapLlCall

Spec == Init /\ [][Next]_vars

-----------------------------------------------------------------------------
(* Claims about the region tracker, checked under Spec *)

Regions == RegionList(region_head, regions)

\* [a, a + la) and [b, b + lb) share no byte
Disjoint(a, la, b, lb) == a + la <= b \/ b + lb <= a

\* seq without its i-th element
DropAt(seq, i) == [j \in 1..(Len(seq) - 1) |-> IF j < i THEN seq[j] ELSE seq[j + 1]]

MapSucceeded == last.op = "mmap" /\ last.path \in {"first", "append"}

\* C1: no two live regions of the process overlap.
C1_NoOverlap ==
  \A i \in 1..Len(Regions) : \A j \in 1..Len(Regions) :
     i < j => Disjoint(Regions[i][1], Regions[i][2], Regions[j][1], Regions[j][2])

\* C2: munmap(A, length) right after the mmap that returned A for that length
\* returns 0 without a null-pointer access, removes that region and leaves the
\* address-space size as it was before the mmap.
C2_MapUnmapRoundTrip ==
  (last.op = "munmap" /\ last.mapped # NoCall) =>
     /\ last.ret = 0
     /\ ~last.fault
     /\ Regions = last.mapped.list
     /\ nregions = last.mapped.nregions
     /\ sz = last.mapped.sz

\* C3: munmap(address, length) with no live region of exactly that start
\* address and length returns -1 and changes nothing.
C3_UnmapNeedsExactMatch ==
  (last.op = "munmap"
     /\ ~\E i \in 1..Len(last.pre.list) : last.pre.list[i] = <<last.addr, last.length>>) =>
     /\ last.ret = -1
     /\ Regions = last.pre.list
     /\ nregions = last.pre.nregions
     /\ sz = last.pre.sz

\* C4: a failed mmap (growth refused, no descriptor block, kernel boundary
\* reached) leaves the recorded size, the region list, the region count and the
\* blocks held from the allocator as they were.
C4_FailedMapRollsBack ==
  (last.op = "mmap" /\ last.path \in {"grow_fail", "kmalloc_fail", "kernbase"}) =>
     /\ sz = last.pre.sz
     /\ Regions = last.pre.list
     /\ nregions = last.pre.nregions
     /\ live = last.pre.live

\* C5: consecutive successful mmap calls of one length return pairwise
\* distinct addresses of pairwise non-overlapping regions.
C5_SameLengthRunDisjoint ==
  \A i \in 1..Len(run.addrs) : \A j \in 1..Len(run.addrs) :
     i < j => /\ run.addrs[i] # run.addrs[j]
              /\ Disjoint(run.addrs[i], run.len, run.addrs[j], run.len)

\* C6: the region a successful mmap returns lies inside [0, p->sz).
C6_MappedInsideAddressSpace ==
  MapSucceeded => last.ret + last.length <= sz

\* C7: nregions is the number of nodes reachable from region_head, and
\* region_head is null exactly when nregions is 0.
C7_CountMatchesList ==
  /\ nregions = Len(ListNodes(region_head, regions))
  /\ (region_head = NULL) <=> (nregions = 0)

\* C8: a munmap(A, L) that finds the live region (A, L), whether at the head,
\* inside or at the tail of the list, removes exactly that region without
\* reading or writing a length through a null neighbour, leaves the other
\* regions with their addresses, lengths and order, and a second munmap(A, L)
\* then fails.
C8_UnmapRemovesExactlyOne ==
  (last.op = "munmap" /\ last.path \in {"head", "inner", "tail"}
     /\ \E i \in 1..Len(last.pre.list) : last.pre.list[i] = <<last.addr, last.length>>) =>
     /\ \E i \in 1..Len(last.pre.list) :
           /\ last.pre.list[i] = <<last.addr, last.length>>
           /\ Regions = DropAt(last.pre.list, i)
     /\ ~last.fault
     /\ Munmap(State, last.addr, last.length, FALSE).ret = -1

-----------------------------------------------------------------------------
(* Claims about the block allocator, checked under SpecAllocPages *)

\* a sequence of kmalloc(n); kmfree(same pointer) round trips has just completed
TripDone == run.k >= 1 /\ run.ptr = NULL /\ last.op = "kmfree"

\* C9: N round trips kmalloc(n); kmfree(returned pointer) of one size leave the
\* free list with the same blocks and the same total free units as before the
\* sequence. Where the first request has to take a page from kalloc (the
\* never-initialised list included) the page stays on the list, so that round
\* trip is held only to adding the page's units, and every later round trip to
\* leaving the list as the first one left it.
C9_RoundTripWithoutGrowth ==
  TripDone =>
    /\ FreeBlocks(freep, mem) = run.shape1
    /\ ~run.grew => /\ run.shape1 = run.shape0
                    /\ FreeUnits(freep, mem) = SumSizes(run.shape0)
    /\ run.grew => SumSizes(run.shape1) = SumSizes(run.shape0) + MorecoreUnits

\* some free block covers the unit range [lo, hi)
Spans(blocks, lo, hi) == \E b \in blocks : b[1] <= lo /\ b[1] + b[2] >= hi

ReleaseBoth(h, first, second) == Kmfree([freep |-> Kmfree(h, first).freep,
                                         mem |-> Kmfree(h, first).mem], second)

SameMerged(ab, ba, lo, hi) ==
  /\ ~ab.hang /\ ~ba.hang
  /\ FreeBlocks(ab.freep, ab.mem) = FreeBlocks(ba.freep, ba.mem)
  /\ Spans(FreeBlocks(ab.freep, ab.mem), lo, hi)

\* C10: two held blocks adjacent in memory, released in either order, end as
\* one free block spanning both, and both orders give the same free list.
C10_CoalesceEitherOrder ==
  /\ \A a \in live : \A b \in live :
       HdrOf(a) + SizeOf(mem, a) = HdrOf(b) =>
         SameMerged(ReleaseBoth([freep |-> freep, mem |-> mem], a, b),
                    ReleaseBoth([freep |-> freep, mem |-> mem], b, a),
                    HdrOf(a), HdrOf(b) + SizeOf(mem, b))
  /\ (last.op = "kmfree" /\ last.pairWith # NULL) =>
       Spans(FreeBlocks(freep, mem),
             Min(HdrOf(last.ap), HdrOf(last.pairWith)),
             Min(HdrOf(last.ap), HdrOf(last.pairWith)) + last.size + last.pairSize)

-----------------------------------------------------------------------------
(* Oversized requests, checked under SpecAlloc *)

\* C11: kmalloc(nbytes) with nbytes above the capacity of one page returns the
\* failure value to its caller, leaves the free list as it was and does not
\* halt the kernel.
C11_OversizedReportsFailure ==
  (last.op = "kmalloc" /\ last.nbytes > KmallocCap) =>
     /\ last.ret = NULL
     /\ ~last.panic
     /\ phase = "run"
     /\ FreeBlocks(freep, mem) = last.pre

-----------------------------------------------------------------------------
(* Further claims about the region tracker, checked under Spec *)

\* C12: every address a successful mmap returns is a multiple of the page
\* size, whatever the size of the address space before the call, the length
\* and the number of advances of the candidate address; the region is recorded
\* at that address.
C12_MappedAddressPageAligned ==
  /\ MapSucceeded => last.ret % PGSIZE = 0
  /\ \A n \in DOMAIN regions : regions[n].start_addr % PGSIZE = 0

\* a successful mmap from an unaligned size, of a length that is no multiple
\* of a page, whose candidate address was advanced twice
C12_Witness ==
  /\ MapSucceeded
  /\ last.pre.sz % PGSIZE # 0
  /\ last.length % PGSIZE # 0
  /\ last.ret = PGROUNDDOWN(last.pre.sz) + 2 * PGROUNDDOWN(PGSIZE + last.length)

\* the elements of a sequence
Range(seq) == { seq[i] : i \in 1..Len(seq) }

C14_DescriptorFitsItsBlock ==
  \A r \in DOMAIN regions :
     /\ DescriptorEnd(r) <= BlockEnd(mem, r)
     /\ \A a \in DOMAIN mem :
          a * HeaderSize + HeaderSize <= r * HeaderSize \/ DescriptorEnd(r) <= a * HeaderSize
     /\ \A q \in (DOMAIN regions) \ {r} :
          DescriptorEnd(q) <= r * HeaderSize \/ DescriptorEnd(r) <= q * HeaderSize

\* C16: in every mmap and munmap call, each successful call of the resizer
\* (allocuvm that grew, deallocuvm in munmap or in the rollback of a failed
\* mmap) is followed, before the call returns, by switchuvm.
C16_ResizeThenActivate ==
  last.op \in {"mmap", "munmap"} =>
     \A i \in 1..Len(last.ext) :
        ( last.ext[i] = "deallocuvm" \/ (last.ext[i] = "allocuvm" /\ last.path # "grow_fail") )
           => \E j \in (i + 1)..Len(last.ext) : last.ext[j] = "switchuvm"

\* C19: no successful mmap returns an address at or above KERNBASE, and no
\* region on the list starts there: an advance of the candidate address that
\* reaches KERNBASE, whether made for the head, for a single node or for the
\* tail, ends the call in the abort branch.
C19_NoRegionAtKernbase ==
  /\ MapSucceeded => last.ret < KERNBASE
  /\ \A i \in 1..Len(Regions) : Regions[i][1] < KERNBASE

-----------------------------------------------------------------------------
(* Further claims about the block allocator *)

\* the blocks the allocator knows of, free or held, as <<header address, units>>
AllBlocks == FreeBlocks(freep, mem) \cup { <<HdrOf(ap), SizeOf(mem, ap)>> : ap \in live }

\* the block b lies inside one of the pages kalloc handed to morecore
InsideAPage(b) == \E pg \in kpages : pg <= b[1] /\ b[1] + b[2] <= pg + PageUnits

\* C15 (checked under SpecAlloc): every free block and every block kmalloc
\* has returned lies inside a page obtained from kalloc, and no two blocks
\* overlap; the free units never exceed what the pages obtained hold.
C15_BlocksInsideTheirPages ==
  /\ \A b \in AllBlocks : InsideAPage(b)
  /\ \A b \in AllBlocks : \A c \in AllBlocks :
       b # c => (b[1] + b[2] <= c[1] \/ c[1] + c[2] <= b[1])
  /\ FreeUnits(freep, mem) <= PageUnits * Cardinality(kpages)

\* C17: a kmalloc call within the page cap comes to an end; it asks kalloc
\* for at most one page, returns 0 only when kalloc gave it none, and once it
\* has a page the search that follows finds a block that fits.
C17_AtMostOneGrowth ==
  (last.op = "kmalloc" /\ last.nbytes <= KmallocCap) =>
     /\ ~last.hang /\ ~last.panic
     /\ last.used <= 1
     /\ (last.ret = NULL) <=> (last.used = 1 /\ last.pages = {})

\* following next from the free node a leads back to a
ReturnsTo(m, a) ==
  a \in DOMAIN m /\ a \in FreeWalk(m, m[a].ptr, {}, Cardinality(DOMAIN m) + 1)

\* two blocks touch when one ends where the other begins
Touch(a, b) == a[1] + a[2] = b[1]

\* C18: after any sequence of kmalloc and kmfree calls on pointers the client
\* holds, the free list is a single cycle (from every free node, following
\* next returns to that node; no call is caught in a walk that never ends) and
\* no two blocks on the list are contiguous in memory.
C18_FreeListCycleCoalesced ==
  (freep # NULL) =>
     /\ last.op \in {"kmalloc", "kmfree"} => ~last.hang
     /\ \A a \in FreeNodes(freep, mem) : ReturnsTo(mem, a)
     /\ \A a, b \in FreeBlocks(freep, mem) : ~Touch(a, b)

\* kmalloc, line 85: the headers the loop visits, in order, from the block
\* after the cursor f round to f itself
RECURSIVE ScanOrder(_, _, _, _)
ScanOrder(m, p, f, fuel) ==
  IF fuel = 0 \/ p \notin DOMAIN m THEN << >>
  ELSE IF p = f THEN <<p>>
  ELSE <<p>> \o ScanOrder(m, m[p].ptr, f, fuel - 1)

\* kmalloc, line 86: the first header of scan whose block has n units or more
RECURSIVE FirstFit(_, _, _)
FirstFit(m, scan, n) ==
  IF scan = << >> THEN NULL
  ELSE IF m[Head(scan)].size >= n THEN Head(scan)
  ELSE FirstFit(m, Tail(scan), n)

\* the block kmalloc(nbytes) is to take from the free list (f, m)
Fit(f, m, nbytes) ==
  FirstFit(m, ScanOrder(m, m[f].ptr, f, Cardinality(DOMAIN m) + 1), Nunits(nbytes))

\* a kmalloc call that returned a block without asking kalloc for a page
TookFromList == last'.op = "kmalloc" /\ last'.ret # NULL /\ last'.used = 0

\* what the call that took n units from the block at p has to leave behind
TakenFrom(p, s, n) ==
  /\ p # NULL
  /\ SizeOf(mem', last'.ret) = n
  /\ HdrOf(last'.ret) = p + s - n
  /\ FreeBlocks(freep', mem') = (FreeBlocks(freep, mem) \ {<<p, s>>})
                                   \cup (IF s = n THEN {} ELSE {<<p, s - n>>})
  /\ FreeUnits(freep', mem') = FreeUnits(freep, mem) - n

\* C20: a kmalloc call of n units that finds a fit on the list takes the first
\* block after the cursor with s >= n units; with s = n the block leaves the
\* list and is returned whole, with s > n it stays at its address with s - n
\* units and the block returned is its last n units. The free units go down by
\* exactly n and no other free block changes.
C20_FirstFitAndSplit ==
  [][ TookFromList =>
        TakenFrom(Fit(freep, mem, last'.nbytes),
                  IF Fit(freep, mem, last'.nbytes) = NULL THEN 0
                  ELSE mem[Fit(freep, mem, last'.nbytes)].size,
                  Nunits(last'.nbytes)) ]_vars


=============================================================================
